---- MODULE Spec2Model ----
(***************************************************************************)
(* FastAPI-Car-Models: a JWT-authenticated CRUD service over one SQLite    *)
(* table of car models, a users table for login, and an upload directory   *)
(* for images.  The model follows src/main.py handler by handler.          *)
(*                                                                         *)
(* Time is counted in ticks, TicksPerSecond of them to a second, because   *)
(* datetime.utcnow() has sub-second resolution while the "exp" claim of a  *)
(* token and the clock reading jwt.decode compares it with are whole       *)
(* seconds (timegm of a utctimetuple drops the fraction).                  *)
(***************************************************************************)
EXTENDS Integers, Sequences, FiniteSets, TLC

VARIABLES
    users,      \* users.db: the rows of table users, in rowid order
    rows,       \* car_models.db: id -> row of table car_models
    seq,        \* sqlite_sequence entry of car_models (AUTOINCREMENT)
    files,      \* uploaded_images/: filename -> bytes written
    now,        \* datetime.utcnow(), in ticks
    resp,       \* the request being answered: what it carried, its
                \* response, and the ORDER BY part of the query it ran
    assigned,   \* history: every id the store has handed out
    deleted,    \* history: every id a DELETE has removed
    created,    \* history: id -> the create response, until the row is
                \* updated or deleted
    issue,      \* token round trip: the last create_access_token call
    check,      \* token round trip: the last verification of that token
    pc,         \* race: position of the update and of the delete request
    rowcount,   \* race: cursor.rowcount of each request's statement
    lock,       \* race: the connection holding the database write lock
    outcome,    \* race: the HTTP status each request answered with
    target      \* race: the id both requests address, whether its row
                \* existed when they started, and the update's body

vars == <<users, rows, seq, files, now, resp, assigned, deleted,
          created, issue, check, pc, rowcount, lock, outcome, target>>

(***************************************************************************)
(* Bounds of the model.                                                    *)
(***************************************************************************)
MaxCreates == 2        \* INSERTs into car_models in one behaviour
MaxNow == 2            \* last tick of the service clock
TicksPerSecond == 2    \* clock resolution below the second
MaxIssueTick == 3      \* last tick at which the round-trip token is issued
MaxTtl == 4            \* longest expires_delta of the round trip, in ticks

(***************************************************************************)
(* Configuration (src/main.py:16-25).                                      *)
(***************************************************************************)
IMAGE_DIR == "uploaded_images"
SECRET_KEY == "c1591e1c961c5da73be50b329c8390a2ec7d38c3e5615152ec10f4c0202fbaa4"
ACCESS_TOKEN_EXPIRE_MINUTES == 30

None == "<None>"       \* Python's None / SQL NULL

Max(a, b) == IF a >= b THEN a ELSE b
Min(a, b) == IF a <= b THEN a ELSE b

\* timedelta(minutes=m) in ticks
Minutes(m) == m * 60 * TicksPerSecond

\* calendar.timegm(dt.utctimetuple()): a datetime to whole seconds, the
\* microseconds dropped (python-jose does this to "exp" in jwt.encode and to
\* utcnow() in jwt.decode)
timegm(t) == t \div TicksPerSecond

(***************************************************************************)
(* Passwords: bcrypt through passlib.  A hash carries its own salt and     *)
(* verifies a password by re-deriving the digest with that salt.           *)
(***************************************************************************)
get_password_hash(password, salt) ==
    [salt |-> salt, digest |-> <<salt, password>>]

verify_password(plain_password, hashed_password) ==
    hashed_password.digest = <<hashed_password.salt, plain_password>>

(***************************************************************************)
(* users.db                                                                *)
(***************************************************************************)
\* INSERT INTO users (username, email, hashed_password): disabled DEFAULT 0
add_user_to_database(table, username, email, password, salt) ==
    Append(table, [username |-> username, email |-> email,
                   hashed_password |-> get_password_hash(password, salt),
                   disabled |-> FALSE])

\* an administrator's UPDATE users SET disabled = 1 (no endpoint does it)
Disable(table, i) == [table EXCEPT ![i].disabled = TRUE]

\* The users tables the service may find at start: alice is active, bob is
\* disabled, nobody else has a row.
UserTables ==
    { Disable(add_user_to_database(
                add_user_to_database(<< >>, "alice", "a@x", "wonder", "s1"),
                "bob", "b@x", "builder", "s2"), 2) }

NoUser == [username |-> None, email |-> None,
           hashed_password |-> [salt |-> None, digest |-> << >>],
           disabled |-> FALSE]

\* SELECT * FROM users WHERE username = ? ... fetchone(): the first row,
\* as a sequence of none or one
FetchUser(table, username) ==
    LET hits == {i \in 1..Len(table) : table[i].username = username}
    IN  IF hits = {} THEN << >>
        ELSE << table[CHOOSE i \in hits : \A j \in hits : i <= j] >>

\* get_user: the row is unpacked whenever the username is truthy, found or
\* not; UserInDB(**None) raises TypeError.  A falsy username returns None.
get_user(table, username) ==
    LET user == FetchUser(table, username)
    IN  IF username # "" /\ username # None
        THEN IF user = << >>
             THEN [kind |-> "TypeError", user |-> NoUser]
             ELSE [kind |-> "user", user |-> user[1]]
        ELSE [kind |-> "None", user |-> NoUser]

authenticate_user(table, username, password) ==
    LET got == get_user(table, username)
    IN  IF got.kind = "TypeError" THEN got
        ELSE IF got.kind = "None" THEN [kind |-> "False", user |-> NoUser]
        ELSE IF ~verify_password(password, got.user.hashed_password)
             THEN [kind |-> "False", user |-> NoUser]
             ELSE got

(***************************************************************************)
(* Tokens: HS256 JWTs through python-jose.                                 *)
(***************************************************************************)
NoToken == [sub |-> None, exp |-> 0, key |-> None]

\* jwt.encode: a datetime "exp" becomes whole seconds; the signature binds
\* the claims to the key
jwt_encode(claims, key) ==
    [sub |-> claims.sub, exp |-> timegm(claims.exp), key |-> key]

\* a variant that turns the token away from the second exp on
jwt_decode_from_exp(token, key, clock) ==
    IF token.key # key THEN [ok |-> FALSE, sub |-> None]
    ELSE IF token.exp <= timegm(clock) THEN [ok |-> FALSE, sub |-> None]
    ELSE [ok |-> TRUE, sub |-> token.sub]

\* jwt.decode: JWTError on a bad signature or when exp < the clock's whole
\* second (ExpiredSignatureError); otherwise the claims
jwt_decode(token, key, clock) ==
    IF token.key # key THEN [ok |-> FALSE, sub |-> None]
    ELSE IF token.exp < timegm(clock) THEN [ok |-> FALSE, sub |-> None]
    ELSE [ok |-> TRUE, sub |-> token.sub]

\* a falsy expires_delta (None, or a zero timedelta; both 0 here) means 15
\* minutes
create_access_token(data, expires_delta, clock) ==
    LET expire == IF expires_delta # 0
                  THEN clock + expires_delta
                  ELSE clock + Minutes(15)
    IN  jwt_encode([sub |-> data.sub, exp |-> expire], SECRET_KEY)

\* get_current_user, the try block: decode, then the subject must be there
verify_token(token, clock) ==
    LET payload == jwt_decode(token, SECRET_KEY, clock)
    IN  IF ~payload.ok THEN [status |-> 401, sub |-> None]
        ELSE IF payload.sub = None THEN [status |-> 401, sub |-> None]
        ELSE [status |-> 200, sub |-> payload.sub]

\* 401 from the try block; get_user's TypeError is not caught and ends the
\* request with 500; get_user returning None is 401
get_current_user(token, clock, table) ==
    LET v == verify_token(token, clock)
        got == get_user(table, v.sub)
    IN  IF v.status # 200 THEN [status |-> 401, user |-> NoUser]
        ELSE IF got.kind = "TypeError" THEN [status |-> 500, user |-> NoUser]
        ELSE IF got.kind = "None" THEN [status |-> 401, user |-> NoUser]
        ELSE [status |-> 200, user |-> got.user]

\* a variant that forgets the disabled flag
get_current_active_user_any(token, clock, table) ==
    get_current_user(token, clock, table)

\* raises 400 "Inactive user" when the user's disabled flag is set
get_current_active_user(token, clock, table) ==
    LET current == get_current_user(token, clock, table)
    IN  IF current.status # 200 THEN current
        ELSE IF current.user.disabled
             THEN [status |-> 400, user |-> NoUser]
             ELSE current

(***************************************************************************)
(* car_models.db: table car_models, id INTEGER PRIMARY KEY AUTOINCREMENT.  *)
(* A row is [manufacturer, model, year, price, image_path].  price is      *)
(* REAL: a Python float and an SQLite REAL are the same binary64, so a     *)
(* value is stored and read back bit for bit; numbers stand for them.      *)
(***************************************************************************)
NullPath == << >>      \* image_path IS NULL

CarInputs ==
    { [manufacturer |-> "Acme", model |-> "X1", year |-> 2020, price |-> 20],
      [manufacturer |-> "Bolt", model |-> "Y2", year |-> 2021, price |-> 10] }

Filenames == {"a.png"}
Contents == {"img1", "img2"}

Ids == 1..(MaxCreates + 1)

NoItem == [id |-> 0, manufacturer |-> "", model |-> "", year |-> 0, price |-> 0]

MaxRowid(rws) ==
    IF DOMAIN rws = {} THEN 0
    ELSE CHOOSE i \in DOMAIN rws : \A j \in DOMAIN rws : j <= i

\* a variant without AUTOINCREMENT: one more than the largest rowid present
NextRowidReusing(rws, sq) == MaxRowid(rws) + 1

\* AUTOINCREMENT: one more than the largest rowid the table has ever held
\* (sqlite_sequence), so a deleted id does not come back
NextRowid(rws, sq) == Max(sq, MaxRowid(rws)) + 1

\* a variant that binds manufacturer and model to each other's column
InsertRowSwapped(rws, id, car) ==
    [i \in DOMAIN rws \cup {id} |->
        IF i = id
        THEN [manufacturer |-> car.model, model |-> car.manufacturer,
              year |-> car.year, price |-> car.price, image_path |-> NullPath]
        ELSE rws[i]]

\* INSERT INTO car_models (manufacturer, model, year, price) VALUES (...)
InsertRow(rws, id, car) ==
    [i \in DOMAIN rws \cup {id} |->
        IF i = id
        THEN [manufacturer |-> car.manufacturer, model |-> car.model,
              year |-> car.year, price |-> car.price, image_path |-> NullPath]
        ELSE rws[i]]

\* a variant that reads rowcount off a cursor that ran nothing
RowcountOfFreshCursor(rws, id) == -1

\* cursor.rowcount of an UPDATE or DELETE ... WHERE id = ?
Rowcount(rws, id) == IF id \in DOMAIN rws THEN 1 ELSE 0

\* a variant that writes the row whether or not it is there (INSERT OR
\* REPLACE)
UpdateRowUpsert(rws, id, car) ==
    [i \in DOMAIN rws \cup {id} |->
        IF i = id
        THEN [manufacturer |-> car.manufacturer, model |-> car.model,
              year |-> car.year, price |-> car.price,
              image_path |-> IF id \in DOMAIN rws THEN rws[id].image_path
                             ELSE NullPath]
        ELSE rws[i]]

\* UPDATE car_models SET manufacturer, model, year, price WHERE id = ?
UpdateRow(rws, id, car) ==
    IF id \in DOMAIN rws
    THEN [rws EXCEPT ![id] = [manufacturer |-> car.manufacturer,
                              model |-> car.model, year |-> car.year,
                              price |-> car.price,
                              image_path |-> rws[id].image_path]]
    ELSE rws

\* DELETE FROM car_models WHERE id = ?
DeleteRow(rws, id) == [i \in DOMAIN rws \ {id} |-> rws[i]]

\* UPDATE car_models SET image_path = ? WHERE id = ?
SetImagePath(rws, id, path) ==
    IF id \in DOMAIN rws THEN [rws EXCEPT ![id].image_path = path] ELSE rws

\* f"{IMAGE_DIR}/{file.filename}"
FileLocation(filename) == <<IMAGE_DIR, filename>>

\* a variant that keeps a file that is already there (mode "xb")
WriteFileExclusive(fs, filename, bytes) ==
    IF filename \in DOMAIN fs THEN fs
    ELSE [f \in DOMAIN fs \cup {filename} |-> bytes]

\* open(file_location, "wb+") ... write(file.file.read())
WriteFile(fs, filename, bytes) ==
    [f \in DOMAIN fs \cup {filename} |-> IF f = filename THEN bytes ELSE fs[f]]

\* dict(row) through response_model=CarModelInDB: image_path is dropped
CarModelInDB(rws, id) ==
    [id |-> id, manufacturer |-> rws[id].manufacturer, model |-> rws[id].model,
     year |-> rws[id].year, price |-> rws[id].price]

\* {**car_model.dict(), "id": car_model_id}
WithId(car, id) ==
    [id |-> id, manufacturer |-> car.manufacturer, model |-> car.model,
     year |-> car.year, price |-> car.price]

(***************************************************************************)
(* SELECT * FROM car_models [ORDER BY col ASC|DESC] LIMIT ?                *)
(***************************************************************************)
Columns == {"id", "manufacturer", "model", "year", "price", "image_path"}

\* TEXT compares bytewise (BINARY collation): the strings of the model in
\* that order
TextOrder == <<"Acme", "Bolt", "X1", "Y2", "a.png">>
TextRank(str) == CHOOSE i \in 1..Len(TextOrder) : TextOrder[i] = str

\* the sort key of a row: NULL sorts before every value
ColumnKey(rws, id, col) ==
    CASE col = "id" -> id
      [] col = "manufacturer" -> TextRank(rws[id].manufacturer)
      [] col = "model" -> TextRank(rws[id].model)
      [] col = "year" -> rws[id].year
      [] col = "price" -> rws[id].price
      [] col = "image_path" ->
            IF rws[id].image_path = NullPath THEN 0
            ELSE TextRank(rws[id].image_path[2])

Perms(S) ==
    {p \in [1..Cardinality(S) -> S] :
        \A i, j \in 1..Cardinality(S) : i # j => p[i] # p[j]}

\* the orders the statement may deliver the table in: rowid order without
\* ORDER BY (the table scan); with it, any order sorted on the column, rows
\* that tie in either order
ScanOrders(rws, col, desc) ==
    {p \in Perms(DOMAIN rws) :
        \A i, j \in 1..Len(p) : i < j =>
            LET ki == IF col = None THEN p[i] ELSE ColumnKey(rws, p[i], col)
                kj == IF col = None THEN p[j] ELSE ColumnKey(rws, p[j], col)
            IN  IF desc /\ col # None THEN ki >= kj ELSE ki <= kj}

\* LIMIT n: the first n rows; a negative n is no limit at all
Limit(s, n) == IF n < 0 THEN s ELSE SubSeq(s, 1, Min(n, Len(s)))

SelectIds(rws, col, desc, n) == {Limit(p, n) : p \in ScanOrders(rws, col, desc)}

\* order_clause of read_car_models: sort_by goes into the text as it came
OrderClause(sort_by, descending) ==
    IF sort_by # None /\ sort_by # ""
    THEN [order_by |-> sort_by,
          dir |-> IF descending = "True" THEN "DESC" ELSE "ASC"]
    ELSE [order_by |-> None, dir |-> None]

(***************************************************************************)
(* The service: one action per route.  A handler is an `async def` with no *)
(* await in its body, so on one event loop a request runs from its         *)
(* dependencies to its response without another request in between; the   *)
(* server then sends the response (Respond) and takes the next request.    *)
(***************************************************************************)
NoQuery == [order_by |-> None, dir |-> None]
NoCar == [manufacturer |-> "", model |-> "", year |-> 0, price |-> 0]

\* what a request carries; a route reads the fields it declares
NoRequest ==
    [token |-> NoToken, username |-> "", password |-> "", id |-> 0,
     car |-> NoCar, limit |-> 10, sort_by |-> None, descending |-> None,
     filename |-> "", bytes |-> ""]

\* resp: the request, the status and body of the answer, whether the
\* handler's body ran (ran), and the ORDER BY it put in its query (query)
Response(op, req, status, ran) ==
    [op |-> op, req |-> req, status |-> status, ran |-> ran,
     challenge |-> FALSE, detail |-> "", item |-> NoItem, items |-> << >>,
     token |-> NoToken, user |-> None, query |-> NoQuery]

\* what the client gets when Depends(get_current_active_user) raises
AuthFailure(op, req, status) ==
    CASE status = 401 ->
            [Response(op, req, 401, FALSE) EXCEPT
                !.challenge = TRUE,
                !.detail = "Could not validate credentials"]
      [] status = 400 ->
            [Response(op, req, 400, FALSE) EXCEPT !.detail = "Inactive user"]
      [] OTHER ->
            [Response(op, req, 500, FALSE) EXCEPT
                !.detail = "Internal Server Error"]

\* the requests a client may send
Subjects == {"alice", "bob", "mallory", "", None}
Keys == {SECRET_KEY, "k-forged"}
TokenSpace == [sub : Subjects, exp : 0..timegm(MaxNow), key : Keys]
LoginNames == {"alice", "bob", "mallory"}
Passwords == {"wonder", "builder"}
Limits == {-1, 0, 1, 2}
\* sort_by is Optional[str]: Query(None, enum=[...]) only documents the five
\* names in the OpenAPI schema, the parameter takes any string
SortBys == Columns \cup {None, "", "bogus"}
Descendings == {None, "True", "False"}

tokenVars == <<issue, check>>
raceVars == <<pc, rowcount, lock, outcome, target>>
storeVars == <<rows, seq, files, assigned, deleted, created>>
otherVars == <<users, now, tokenVars, raceVars>>

NoTarget == [id |-> 0, existed |-> FALSE, car |-> NoCar]
NoIssue == [at |-> 0, ttl |-> 0, sub |-> None, token |-> NoToken]
NoCheck == [at |-> 0, status |-> 0, sub |-> None]

\* no request is being answered
Idle == resp.op = "idle"

NoResponse == Response("idle", NoRequest, 0, FALSE)

Init ==
    /\ users \in UserTables
    /\ rows = << >>
    /\ seq = 0
    /\ files = << >>
    /\ now = 0
    /\ resp = NoResponse
    /\ assigned = {}
    /\ deleted = {}
    /\ created = << >>
    /\ issue = NoIssue
    /\ check = NoCheck
    /\ pc = << >>
    /\ rowcount = << >>
    /\ lock = None
    /\ outcome = << >>
    /\ target = NoTarget

\* the response goes out
Respond ==
    /\ ~Idle
    /\ resp' = NoResponse
    /\ UNCHANGED <<storeVars, otherVars>>

Tick ==
    /\ Idle
    /\ now < MaxNow
    /\ now' = now + 1
    /\ UNCHANGED <<users, storeVars, resp, tokenVars, raceVars>>

\* a request whose dependency raised: nothing but the response
Rejected(op, req, status) ==
    /\ resp' = AuthFailure(op, req, status)
    /\ UNCHANGED <<storeVars, otherVars>>

\* POST /token
login_for_access_token(username, password) ==
    LET user == authenticate_user(users, username, password)
        req == [NoRequest EXCEPT !.username = username, !.password = password]
    IN  /\ resp' =
            CASE user.kind = "TypeError" ->
                    [Response("login", req, 500, FALSE) EXCEPT
                        !.detail = "Internal Server Error"]
              [] user.kind = "False" ->
                    [Response("login", req, 401, TRUE) EXCEPT
                        !.challenge = TRUE,
                        !.detail = "Incorrect username or password"]
              [] OTHER ->
                    [Response("login", req, 200, TRUE) EXCEPT
                        !.token = create_access_token(
                                    [sub |-> user.user.username],
                                    Minutes(ACCESS_TOKEN_EXPIRE_MINUTES), now)]
        /\ UNCHANGED <<storeVars, otherVars>>

\* GET /users/me/
read_users_me(token) ==
    LET auth == get_current_active_user(token, now, users)
        req == [NoRequest EXCEPT !.token = token]
    IN  IF auth.status # 200 THEN Rejected("me", req, auth.status)
        ELSE /\ resp' = [Response("me", req, 200, TRUE) EXCEPT
                            !.user = auth.user.username]
             /\ UNCHANGED <<storeVars, otherVars>>

\* GET /
root ==
    /\ resp' = [Response("root", NoRequest, 301, TRUE) EXCEPT !.detail = "/docs"]
    /\ UNCHANGED <<storeVars, otherVars>>

\* GET /car_models/
read_car_models(token, limit, sort_by, descending) ==
    LET auth == get_current_active_user(token, now, users)
        req == [NoRequest EXCEPT !.token = token, !.limit = limit,
                                 !.sort_by = sort_by, !.descending = descending]
        clause == OrderClause(sort_by, descending)
    IN  IF auth.status # 200 THEN Rejected("list", req, auth.status)
        ELSE /\ IF clause.order_by # None /\ clause.order_by \notin Columns
                THEN \* sqlite3.OperationalError: no such column
                     resp' = [Response("list", req, 500, TRUE) EXCEPT
                                !.detail = "Internal Server Error",
                                !.query = clause]
                ELSE \E ids \in SelectIds(rows, clause.order_by,
                                          clause.dir = "DESC", limit) :
                        resp' = [Response("list", req, 200, TRUE) EXCEPT
                            !.items = [i \in 1..Len(ids) |->
                                            CarModelInDB(rows, ids[i])],
                            !.query = clause]
             /\ UNCHANGED <<storeVars, otherVars>>

\* POST /car_models/
create_car_model(token, car_model) ==
    LET auth == get_current_active_user(token, now, users)
        req == [NoRequest EXCEPT !.token = token, !.car = car_model]
        car_model_id == NextRowid(rows, seq)
    IN  IF auth.status # 200 THEN Rejected("create", req, auth.status)
        ELSE /\ seq < MaxCreates
             /\ rows' = InsertRow(rows, car_model_id, car_model)
             /\ seq' = car_model_id
             /\ assigned' = assigned \cup {car_model_id}
             /\ created' = [i \in DOMAIN created \cup {car_model_id} |->
                              IF i = car_model_id
                              THEN WithId(car_model, car_model_id)
                              ELSE created[i]]
             /\ resp' = [Response("create", req, 200, TRUE) EXCEPT
                            !.item = WithId(car_model, car_model_id)]
             /\ UNCHANGED <<files, deleted, otherVars>>

\* GET /car_models/{car_model_id}
read_car_model(token, car_model_id) ==
    LET auth == get_current_active_user(token, now, users)
        req == [NoRequest EXCEPT !.token = token, !.id = car_model_id]
    IN  IF auth.status # 200 THEN Rejected("get", req, auth.status)
        ELSE /\ resp' =
                  IF car_model_id \notin DOMAIN rows
                  THEN Response("get", req, 404, TRUE)
                  ELSE [Response("get", req, 200, TRUE) EXCEPT
                            !.item = CarModelInDB(rows, car_model_id)]
             /\ UNCHANGED <<storeVars, otherVars>>

Without(f, id) == [i \in DOMAIN f \ {id} |-> f[i]]

\* PUT /car_models/{car_model_id}
update_car_model(token, car_model_id, car_model) ==
    LET auth == get_current_active_user(token, now, users)
        req == [NoRequest EXCEPT !.token = token, !.id = car_model_id,
                                 !.car = car_model]
    IN  IF auth.status # 200 THEN Rejected("update", req, auth.status)
        ELSE /\ rows' = UpdateRow(rows, car_model_id, car_model)
             /\ IF Rowcount(rows, car_model_id) = 0
                THEN /\ resp' = Response("update", req, 404, TRUE)
                     /\ created' = created
                ELSE /\ resp' = [Response("update", req, 200, TRUE) EXCEPT
                                    !.item = WithId(car_model, car_model_id)]
                     /\ created' = Without(created, car_model_id)
             /\ UNCHANGED <<seq, files, assigned, deleted, otherVars>>

\* DELETE /car_models/{car_model_id}
delete_car_model(token, car_model_id) ==
    LET auth == get_current_active_user(token, now, users)
        req == [NoRequest EXCEPT !.token = token, !.id = car_model_id]
    IN  IF auth.status # 200 THEN Rejected("delete", req, auth.status)
        ELSE /\ rows' = DeleteRow(rows, car_model_id)
             /\ IF Rowcount(rows, car_model_id) = 0
                THEN /\ resp' = Response("delete", req, 404, TRUE)
                     /\ UNCHANGED <<deleted, created>>
                ELSE /\ resp' = Response("delete", req, 202, TRUE)
                     /\ deleted' = deleted \cup {car_model_id}
                     /\ created' = Without(created, car_model_id)
             /\ UNCHANGED <<seq, files, assigned, otherVars>>

\* POST /car_models/{car_model_id}/image/
upload_car_model_image(token, car_model_id, filename, bytes) ==
    LET auth == get_current_active_user(token, now, users)
        req == [NoRequest EXCEPT !.token = token, !.id = car_model_id,
                                 !.filename = filename, !.bytes = bytes]
    IN  IF auth.status # 200 THEN Rejected("upload_image", req, auth.status)
        ELSE /\ files' = WriteFile(files, filename, bytes)
             /\ rows' = SetImagePath(rows, car_model_id, FileLocation(filename))
             /\ resp' = Response("upload_image", req, 201, TRUE)
             /\ UNCHANGED <<seq, assigned, deleted, created, otherVars>>

\* PUT /car_models/{car_model_id}/image/
update_car_model_image(token, car_model_id, filename, bytes) ==
    LET auth == get_current_active_user(token, now, users)
        req == [NoRequest EXCEPT !.token = token, !.id = car_model_id,
                                 !.filename = filename, !.bytes = bytes]
    IN  IF auth.status # 200 THEN Rejected("update_image", req, auth.status)
        ELSE /\ files' = WriteFile(files, filename, bytes)
             /\ rows' = SetImagePath(rows, car_model_id, FileLocation(filename))
             /\ resp' = Response("update_image", req,
                                 IF Rowcount(rows, car_model_id) = 0
                                 THEN 404 ELSE 202, TRUE)
             /\ UNCHANGED <<seq, assigned, deleted, created, otherVars>>

\* DELETE /car_models/{car_model_id}/image/
delete_car_model_image(token, car_model_id) ==
    LET auth == get_current_active_user(token, now, users)
        req == [NoRequest EXCEPT !.token = token, !.id = car_model_id]
    IN  IF auth.status # 200 THEN Rejected("delete_image", req, auth.status)
        ELSE /\ rows' = SetImagePath(rows, car_model_id, NullPath)
             /\ resp' = Response("delete_image", req, 202, TRUE)
             /\ UNCHANGED <<seq, files, assigned, deleted, created, otherVars>>

\* The requests, over the tokens T a client presents.  A request the
\* dependency rejects ends the same whatever else it carries, so the rest of
\* its input is drawn only once it passes.
Passes(t) == get_current_active_user(t, now, users).status = 200

Login ==
    Idle /\ \E u \in LoginNames, p \in Passwords : login_for_access_token(u, p)
Root == Idle /\ root
UsersMe(T) == Idle /\ \E t \in T : read_users_me(t)
List(T, L, S, D) == Idle /\ \E t \in T :
    IF Passes(t)
    THEN \E n \in L, s \in S, d \in D : read_car_models(t, n, s, d)
    ELSE read_car_models(t, 10, None, None)
Create(T, C) == Idle /\ \E t \in T :
    IF Passes(t)
    THEN \E c \in C : create_car_model(t, c)
    ELSE create_car_model(t, CHOOSE c \in C : TRUE)
Get(T, I) == Idle /\ \E t \in T :
    IF Passes(t)
    THEN \E id \in I : read_car_model(t, id)
    ELSE read_car_model(t, 1)
Update(T, I, C) == Idle /\ \E t \in T :
    IF Passes(t)
    THEN \E id \in I, c \in C : update_car_model(t, id, c)
    ELSE update_car_model(t, 1, CHOOSE c \in C : TRUE)
Delete(T, I) == Idle /\ \E t \in T :
    IF Passes(t)
    THEN \E id \in I : delete_car_model(t, id)
    ELSE delete_car_model(t, 1)
UploadImage(T, I, B) == Idle /\ \E t \in T, f \in Filenames, b \in B :
    IF Passes(t)
    THEN \E id \in I : upload_car_model_image(t, id, f, b)
    ELSE upload_car_model_image(t, 1, f, b)
UpdateImage(T, I, B) == Idle /\ \E t \in T, f \in Filenames, b \in B :
    IF Passes(t)
    THEN \E id \in I : update_car_model_image(t, id, f, b)
    ELSE update_car_model_image(t, 1, f, b)
DeleteImage(T, I) == Idle /\ \E t \in T :
    IF Passes(t)
    THEN \E id \in I : delete_car_model_image(t, id)
    ELSE delete_car_model_image(t, 1)

(***************************************************************************)
(* Spec: the store under every input of its handlers, within the life of   *)
(* the tokens presented (one of an active user, one of a disabled user).   *)
(***************************************************************************)
StoreTokens ==
    {t \in TokenSpace :
        t.key = SECRET_KEY /\ t.exp = timegm(MaxNow) /\ t.sub \in {"alice", "bob"}}

Next ==
    \/ Respond
    \/ Login
    \/ UsersMe(StoreTokens)
    \/ Root
    \/ List(StoreTokens, Limits, SortBys, Descendings)
    \/ Create(StoreTokens, CarInputs)
    \/ Get(StoreTokens, Ids)
    \/ Update(StoreTokens, Ids, CarInputs)
    \/ Delete(StoreTokens, Ids)
    \/ UploadImage(StoreTokens, Ids, Contents)
    \/ UpdateImage(StoreTokens, Ids, Contents)
    \/ DeleteImage(StoreTokens, Ids)

Spec == Init /\ [][Next]_vars

(***************************************************************************)
(* SpecAuth: every token against a running clock, each handler on one      *)
(* input.                                                                  *)
(***************************************************************************)
OneCar == {CHOOSE c \in CarInputs : c.manufacturer = "Acme"}
OneContent == {"img1"}

NextAuth ==
    \/ Respond
    \/ Tick
    \/ Login
    \/ UsersMe(TokenSpace)
    \/ Root
    \/ List(TokenSpace, {10}, {"price"}, {None})
    \/ Create(TokenSpace, OneCar)
    \/ Get(TokenSpace, {1})
    \/ Update(TokenSpace, {1}, OneCar)
    \/ Delete(TokenSpace, {1})
    \/ UploadImage(TokenSpace, {1}, OneContent)
    \/ UpdateImage(TokenSpace, {1}, OneContent)
    \/ DeleteImage(TokenSpace, {1})

SpecAuth == Init /\ [][NextAuth]_vars

(***************************************************************************)
(* SpecToken: one token from create_access_token, verified as the clock    *)
(* runs past its expiry.                                                   *)
(***************************************************************************)
RoundTripSubjects == {"alice", "mallory", ""}
Ttls == 0..MaxTtl
CheckEnd == MaxIssueTick + MaxTtl + 2 * TicksPerSecond

Quiet ==
    /\ users \in UserTables
    /\ rows = << >>
    /\ seq = 0
    /\ files = << >>
    /\ resp = NoResponse
    /\ assigned = {}
    /\ deleted = {}
    /\ created = << >>

InitToken ==
    /\ Quiet
    /\ now = 0
    /\ issue = NoIssue
    /\ check = NoCheck
    /\ pc = << >>
    /\ rowcount = << >>
    /\ lock = None
    /\ outcome = << >>
    /\ target = NoTarget

Issued == issue.token # NoToken

IssueToken ==
    /\ ~Issued
    /\ \E sub \in RoundTripSubjects, ttl \in Ttls :
            issue' = [at |-> now, ttl |-> ttl, sub |-> sub,
                      token |-> create_access_token([sub |-> sub], ttl, now)]
    /\ UNCHANGED <<users, storeVars, now, resp, check, raceVars>>

VerifyToken ==
    /\ Issued
    /\ LET v == verify_token(issue.token, now)
       IN  check' = [at |-> now, status |-> v.status, sub |-> v.sub]
    /\ UNCHANGED <<users, storeVars, now, resp, issue, raceVars>>

TickToken ==
    /\ now < (IF Issued THEN CheckEnd ELSE MaxIssueTick)
    /\ now' = now + 1
    /\ UNCHANGED <<users, storeVars, resp, tokenVars, raceVars>>

NextToken ==
    \/ IssueToken
    \/ VerifyToken
    \/ TickToken

SpecToken == InitToken /\ [][NextToken]_vars

(***************************************************************************)
(* SpecRace: PUT /car_models/{id} and DELETE /car_models/{id} in two       *)
(* workers, statement by statement.  Each handler executes its statement   *)
(* (sqlite3 opens the transaction and takes the database's write lock),    *)
(* commits (the change lands, the lock goes), then reads cursor.rowcount   *)
(* and answers.  A statement that finds the lock taken waits for it.       *)
(***************************************************************************)
Workers == {"update", "delete"}

\* the tables the requests may find: any rows under the ids handed out
RaceStores ==
    UNION { [I -> {[manufacturer |-> c.manufacturer, model |-> c.model,
                    year |-> c.year, price |-> c.price,
                    image_path |-> NullPath] : c \in CarInputs}]
            : I \in SUBSET (1..MaxCreates) }

InitRace ==
    /\ users \in UserTables
    /\ rows \in RaceStores
    /\ seq = MaxCreates
    /\ files = << >>
    /\ now = 0
    /\ resp = NoResponse
    /\ assigned = 1..MaxCreates
    /\ deleted = (1..MaxCreates) \ DOMAIN rows
    /\ created = << >>
    /\ issue = NoIssue
    /\ check = NoCheck
    /\ pc = [w \in Workers |-> "execute"]
    /\ rowcount = [w \in Workers |-> -1]
    /\ lock = None
    /\ outcome = [w \in Workers |-> 0]
    /\ \E id \in Ids, c \in CarInputs :
            target = [id |-> id, existed |-> id \in DOMAIN rows, car |-> c]

\* cursor.execute(...): the statement runs in the worker's transaction
Execute(w) ==
    /\ pc[w] = "execute"
    /\ lock = None
    /\ lock' = w
    /\ rowcount' = [rowcount EXCEPT ![w] = Rowcount(rows, target.id)]
    /\ pc' = [pc EXCEPT ![w] = "commit"]
    /\ UNCHANGED <<users, storeVars, now, resp, tokenVars, outcome, target>>

\* conn.commit()
Commit(w) ==
    /\ pc[w] = "commit"
    /\ lock = w
    /\ rows' = IF w = "update" THEN UpdateRow(rows, target.id, target.car)
               ELSE DeleteRow(rows, target.id)
    /\ deleted' = IF w = "delete" /\ rowcount[w] # 0
                  THEN deleted \cup {target.id} ELSE deleted
    /\ lock' = None
    /\ pc' = [pc EXCEPT ![w] = "answer"]
    /\ UNCHANGED <<users, seq, files, assigned, created, now, resp, tokenVars,
                   rowcount, outcome, target>>

\* if cursor.rowcount == 0: raise HTTPException(404) ... else the body
Answer(w) ==
    /\ pc[w] = "answer"
    /\ outcome' = [outcome EXCEPT ![w] =
                        IF rowcount[w] = 0 THEN 404
                        ELSE IF w = "update" THEN 200 ELSE 202]
    /\ pc' = [pc EXCEPT ![w] = "done"]
    /\ UNCHANGED <<users, storeVars, now, resp, tokenVars, rowcount, lock,
                   target>>

UpdateWorker == Execute("update") \/ Commit("update") \/ Answer("update")
DeleteWorker == Execute("delete") \/ Commit("delete") \/ Answer("delete")

NextRace ==
    \/ UpdateWorker
    \/ DeleteWorker

SpecRace == InitRace /\ [][NextRace]_vars

(***************************************************************************)
(* What the claims speak of.  A step from an idle server is one request;   *)
(* resp' holds what it carried (resp'.req) and how it ended.               *)
(***************************************************************************)
BearerOps == {"me", "list", "create", "get", "update", "delete",
              "upload_image", "update_image", "delete_image"}

SignatureVerifies(t) == t.key = SECRET_KEY

\* the clock has not gone past the second named by exp
ExpiryNotElapsed(t) == now <= t.exp * TicksPerSecond

\* the clock is less than one second past exp
ExpiryWithinASecond(t) == now < (t.exp + 1) * TicksPerSecond

SubjectExists(t) == \E i \in 1..Len(users) : users[i].username = t.sub

\* the row the subject resolves to (the first of that name) is disabled
SubjectDisabled(t) ==
    /\ SubjectExists(t)
    /\ LET i == CHOOSE k \in 1..Len(users) :
                    /\ users[k].username = t.sub
                    /\ \A j \in 1..(k - 1) : users[j].username # t.sub
       IN  users[i].disabled

StoreUntouched == rows' = rows /\ seq' = seq /\ files' = files

\* the handler did something: its body ran, or the store or the directory
\* changed, or the response carries rows or a user
HandlerActed ==
    \/ resp'.ran
    \/ ~StoreUntouched
    \/ resp'.items # << >>
    \/ resp'.item # NoItem
    \/ resp'.user # None

Gate(t, unexpired) ==
    /\ HandlerActed =>
          /\ SignatureVerifies(t)
          /\ unexpired
          /\ SubjectExists(t)
          /\ ~SubjectDisabled(t)
    /\ SignatureVerifies(t) /\ unexpired /\ t.sub # None /\ SubjectDisabled(t) =>
          /\ resp'.status = 400
          /\ resp'.detail = "Inactive user"
          /\ ~resp'.challenge
    /\ resp'.status = 401 => resp'.challenge
    /\ resp'.status \in {400, 401} => ~resp'.ran
    /\ ~resp'.ran => StoreUntouched

\* C1 as stated: a bearer-protected request reaches its handler only if the
\* token's signature verifies, its expiry has not elapsed and its subject
\* is an existing user that is not disabled; a disabled subject ends in 400
\* "Inactive user", without the 401 challenge; a rejected request changes
\* neither the store nor the upload directory.
C1_GatedUntilExpiry ==
    [][Idle /\ resp'.op \in BearerOps =>
            Gate(resp'.req.token, ExpiryNotElapsed(resp'.req.token))]_vars

\* C1, amended: the same, with "expiry has not elapsed" read as jwt.decode
\* reads it: the clock is less than one whole second past exp.
C1_GatedWithinASecond ==
    [][Idle /\ resp'.op \in BearerOps =>
            Gate(resp'.req.token, ExpiryWithinASecond(resp'.req.token))]_vars

\* a disabled user's good token is turned away with 400 from an upload, with
\* rows in the store and nothing written, after the clock has moved
C1_Witness ==
    /\ resp.op = "upload_image"
    /\ resp.status = 400
    /\ resp.req.token.sub = "bob"
    /\ DOMAIN rows # {}
    /\ files = << >>
    /\ now > 0

\* C2: POST /token answers 200 with a token for the user exactly when a row
\* has the username and the password verifies against it; in every other
\* case, no such row or a wrong password alike, it answers 401 with the
\* WWW-Authenticate: Bearer challenge and the same detail.
C2_LoginUnauthorized ==
    [][Idle /\ resp'.op = "login" =>
        IF \E i \in 1..Len(users) :
                /\ users[i].username = resp'.req.username
                /\ verify_password(resp'.req.password, users[i].hashed_password)
        THEN resp'.status = 200 /\ resp'.token.sub = resp'.req.username
        ELSE /\ resp'.status = 401
             /\ resp'.challenge
             /\ resp'.detail = "Incorrect username or password"]_vars

SameFields(item, car) ==
    /\ item.manufacturer = car.manufacturer
    /\ item.model = car.model
    /\ item.year = car.year
    /\ item.price = car.price

\* C4: create answers with the four fields it was given and an id the store
\* has never assigned before; a get of a created id that has been neither
\* updated nor deleted since answers 200 with the very object create
\* answered with.
C4_CreateThenGet ==
    [][Idle =>
        /\ resp'.op = "create" /\ resp'.ran =>
              /\ resp'.status = 200
              /\ SameFields(resp'.item, resp'.req.car)
              /\ resp'.item.id \notin assigned
              /\ resp'.item.id \notin DOMAIN rows
              /\ resp'.item.id \in DOMAIN rows'
        /\ resp'.op = "get" /\ resp'.ran /\ resp'.req.id \in DOMAIN created =>
              /\ resp'.status = 200
              /\ resp'.item = created[resp'.req.id]]_vars

\* a get returns what create returned, after an earlier row was deleted
C4_Witness ==
    /\ resp.op = "get"
    /\ resp.status = 200
    /\ resp.req.id \in DOMAIN created
    /\ resp.item = created[resp.req.id]
    /\ deleted # {}

\* C5: an update of an id with no row answers 404 and leaves the table as it
\* was: no row created, changed or removed.
C5_UpdateMissing ==
    [][Idle /\ resp'.op = "update" /\ resp'.ran
            /\ resp'.req.id \notin DOMAIN rows =>
        /\ resp'.status = 404
        /\ rows' = rows
        /\ seq' = seq]_vars

\* an update of a missing id was answered 404 while other rows exist
C5_Witness ==
    /\ resp.op = "update"
    /\ resp.status = 404
    /\ resp.req.id \notin DOMAIN rows
    /\ DOMAIN rows # {}

\* C6: a delete of an id with no row answers 404 and changes nothing; of an
\* id with a row it answers 202 and removes that row and no other; from then
\* on the id has no row, a get of it answers 404, and no create is given it.
C6_DeleteForGood ==
    [][/\ Idle /\ resp'.op = "delete" /\ resp'.ran =>
            IF resp'.req.id \notin DOMAIN rows
            THEN resp'.status = 404 /\ StoreUntouched
            ELSE /\ resp'.status = 202
                 /\ DOMAIN rows' = DOMAIN rows \ {resp'.req.id}
                 /\ \A i \in DOMAIN rows' : rows'[i] = rows[i]
                 /\ files' = files
       /\ Idle /\ resp'.op = "get" /\ resp'.ran /\ resp'.req.id \in deleted =>
            resp'.status = 404
       /\ Idle /\ resp'.op = "create" /\ resp'.ran =>
            resp'.item.id \notin deleted
       /\ deleted' \cap DOMAIN rows' = {}]_vars

\* a get of a deleted id answers 404 after a later create
C6_Witness ==
    /\ resp.op = "get"
    /\ resp.status = 404
    /\ resp.req.id \in deleted
    /\ DOMAIN rows # {}
    /\ \A i \in DOMAIN rows : i > resp.req.id

NonIncreasingPrice(items) ==
    \A i, j \in 1..Len(items) : i < j => items[i].price >= items[j].price

\* C7: for every limit the handler accepts, a list over N rows answers with
\* exactly min(limit, N) rows, at most limit, each a row of the store; sorted
\* by price descending they are in non-increasing price order and no row left
\* out is priced above a row returned.
C7_ListLimit ==
    resp.op = "list" /\ resp.status = 200 =>
        LET items == resp.items
            ids == {items[i].id : i \in 1..Len(items)}
        IN  /\ Len(items) <= resp.req.limit
            /\ Len(items) = Min(resp.req.limit, Cardinality(DOMAIN rows))
            /\ Cardinality(ids) = Len(items)
            /\ \A i \in 1..Len(items) :
                    /\ items[i].id \in DOMAIN rows
                    /\ items[i] = CarModelInDB(rows, items[i].id)
            /\ resp.req.sort_by = "price" /\ resp.req.descending = "True" =>
                    /\ NonIncreasingPrice(items)
                    /\ \A i \in 1..Len(items), r \in DOMAIN rows \ ids :
                            rows[r].price <= items[i].price

AllowList == {"id", "manufacturer", "model", "year", "price"}

\* C8: the column read_car_models puts after ORDER BY is one of id,
\* manufacturer, model, year, price.
C8_OrderByAllowList ==
    resp.op = "list" /\ resp.query.order_by # None =>
        resp.query.order_by \in AllowList

\* C9: for an id with no row, POST .../image/ answers 201 and PUT .../image/
\* answers 404; either way the bytes are in the file of the given name
\* afterwards and no row has changed.
C9_ImageOfMissingRow ==
    [][Idle /\ resp'.op \in {"upload_image", "update_image"} /\ resp'.ran
            /\ resp'.req.id \notin DOMAIN rows =>
        /\ resp'.status = IF resp'.op = "upload_image" THEN 201 ELSE 404
        /\ resp'.req.filename \in DOMAIN files'
        /\ files'[resp'.req.filename] = resp'.req.bytes
        /\ rows' = rows]_vars

\* PUT .../image/ for a missing id answered 404, replaced the file that
\* was there, and the rows that exist point at no image
C9_Witness ==
    /\ resp.op = "update_image"
    /\ resp.status = 404
    /\ resp.req.id \notin DOMAIN rows
    /\ resp.req.filename \in DOMAIN files
    /\ files[resp.req.filename] = "img2"
    /\ DOMAIN rows # {}
    /\ \A i \in DOMAIN rows : rows[i].image_path = NullPath

\* C3 as stated: a token issued at t with ttl > 0 verifies, with the
\* subject it was issued for, at every time before t + ttl, and is turned
\* away with 401 at every time after t + ttl.
C3_RoundTripUntilTtl ==
    check.status # 0 /\ issue.ttl > 0 =>
        /\ check.at < issue.at + issue.ttl =>
                check.status = 200 /\ check.sub = issue.sub
        /\ check.at > issue.at + issue.ttl => check.status = 401

\* the first tick of the second after the one t + ttl falls in
SecondAfter(t) == ((t \div TicksPerSecond) + 1) * TicksPerSecond

\* C3, amended: the token verifies, with its subject, at every time before
\* the start of the second after the one t + ttl falls in (so at every time
\* before t + ttl), and is turned away with 401 from that second on.
C3_RoundTripToTheSecond ==
    check.status # 0 /\ issue.ttl > 0 =>
        /\ check.at < SecondAfter(issue.at + issue.ttl) =>
                check.status = 200 /\ check.sub = issue.sub
        /\ check.at >= SecondAfter(issue.at + issue.ttl) => check.status = 401

\* a token still verifies, with its subject, after t + ttl has passed
C3_Witness ==
    /\ issue.ttl > 0
    /\ check.at > issue.at + issue.ttl
    /\ check.status = 200
    /\ check.sub = issue.sub

Finished == \A w \in Workers : pc[w] = "done"

\* C10: when an update and a delete of an existing row race, the delete
\* answers 202, the row is gone once both have answered, and the update has
\* answered 200 or 404.
C10_UpdateDeleteRace ==
    DOMAIN pc = Workers /\ Finished /\ target.existed =>
        /\ outcome["delete"] = 202
        /\ target.id \notin DOMAIN rows
        /\ outcome["update"] \in {200, 404}

\* the interleaving in which the update answers 200 for a row that is gone
C10_Witness ==
    /\ DOMAIN pc = Workers
    /\ Finished
    /\ target.existed
    /\ outcome["update"] = 200
    /\ outcome["delete"] = 202
    /\ target.id \notin DOMAIN rows

====
